---------------------------- MODULE Spec2Model ----------------------------
(*
  University career-contact sourcing agent: persona classification and
  scoring (scoring.py), two-stage deduplication (dedupe.py), the pipeline
  that runs them (agent.py, run_main_command), the LinkedIn note of the
  outreach drafts (outreach.py) and the staff-page enrichment (enrich.py).

  Conventions
    - A Python str is a TLA+ string; Len, SubSeq and \o act on it.
    - A float score is an integer count of quarters: 0.5 is 2, 1.0 is 4,
      1.5 is 6, 2.0 is 8, 3.0 is 12 (so (a + b) / 2 stays exact).
    - NaN is the value pandas gives a missing cell (pd.isna is true of it).
    - Raised is the outcome of a call that ends in an uncaught exception,
      Return(v) the outcome of one that returns v.
*)
EXTENDS Integers, Sequences, FiniteSets, TLC

VARIABLES
    files,               \* the file system: config path -> file content
    PERSONA_KEYWORDS,    \* scoring.py _PERSONA_KEYWORDS (module global)
    SENIORITY_KEYWORDS,  \* scoring.py _SENIORITY_KEYWORDS (module global)
    ret,                 \* the last call: its name, arguments and outcome
    df,                  \* the contact table the caller holds
    pc,                  \* position of run_main_command / of the caller
    runs,                \* calls of dedupe_contacts made on this table
    loads                \* calls of load_config_keywords made so far

vars == <<files, PERSONA_KEYWORDS, SENIORITY_KEYWORDS, ret, df, pc, runs, loads>>

\* A missing cell. It stands apart from every str the model draws.
NaN == "<NaN>"
None == [none |-> TRUE]
\* What a call yields: Return(v), or Raised when an exception escapes it.
Raised == [raised |-> TRUE]
Return(v) == [value |-> v]
FileNotFound == [errno |-> "ENOENT"]
Malformed == [json |-> "invalid"]

(***************************************************************************)
(* Python str operations                                                   *)
(***************************************************************************)
LowerOf ==
    [c \in {"A","B","C","D","E","F","G","H","I","J","K","L","M","N","O","P",
            "Q","R","S","T","U","V","W","X","Y","Z"} |->
       CASE c = "A" -> "a" [] c = "B" -> "b" [] c = "C" -> "c" [] c = "D" -> "d"
         [] c = "E" -> "e" [] c = "F" -> "f" [] c = "G" -> "g" [] c = "H" -> "h"
         [] c = "I" -> "i" [] c = "J" -> "j" [] c = "K" -> "k" [] c = "L" -> "l"
         [] c = "M" -> "m" [] c = "N" -> "n" [] c = "O" -> "o" [] c = "P" -> "p"
         [] c = "Q" -> "q" [] c = "R" -> "r" [] c = "S" -> "s" [] c = "T" -> "t"
         [] c = "U" -> "u" [] c = "V" -> "v" [] c = "W" -> "w" [] c = "X" -> "x"
         [] c = "Y" -> "y" [] c = "Z" -> "z"]

RECURSIVE Lower(_)
\* str.lower()
Lower(s) ==
    IF s = "" THEN ""
    ELSE LET c == SubSeq(s, 1, 1)
         IN (IF c \in DOMAIN LowerOf THEN LowerOf[c] ELSE c)
              \o Lower(SubSeq(s, 2, Len(s)))

RECURSIVE LStrip(_)
LStrip(s) ==
    IF s # "" /\ SubSeq(s, 1, 1) = " " THEN LStrip(SubSeq(s, 2, Len(s))) ELSE s

RECURSIVE RStrip(_)
RStrip(s) ==
    IF s # "" /\ SubSeq(s, Len(s), Len(s)) = " "
    THEN RStrip(SubSeq(s, 1, Len(s) - 1)) ELSE s

\* str.strip()
Strip(s) == RStrip(LStrip(s))

\* Python's  kw in s  for two strs (the empty str is in every str)
Contains(kw, s) ==
    \E i \in 1..(Len(s) - Len(kw) + 1) : SubSeq(s, i, i + Len(kw) - 1) = kw

\* sum(1 for keyword in keywords if keyword in title_lower)
CountMatches(keywords, title_lower) ==
    Cardinality({i \in DOMAIN keywords : Contains(keywords[i], title_lower)})

\* any(keyword in title_lower for keyword in keywords)
AnyMatch(keywords, title_lower) ==
    \E i \in DOMAIN keywords : Contains(keywords[i], title_lower)

(***************************************************************************)
(* scoring.py: keyword configuration                                       *)
(***************************************************************************)
\* The key order of both keyword dicts (a dict iterates in insertion order).
PersonaOrder == <<"Employer Relations", "Career Services", "Experiential Learning">>
SeniorityOrder == <<"senior", "mid", "junior">>

Personas == {PersonaOrder[i] : i \in DOMAIN PersonaOrder}

DefaultPersonaKeywords ==
    [p \in Personas |->
       CASE p = "Employer Relations" ->
              <<"employer relations", "employer partnerships", "employer engagement",
                "employer services", "corporate relations", "recruiter relations",
                "employer outreach", "partnerships", "employer development",
                "industry partnerships">>
         [] p = "Career Services" ->
              <<"career services", "career center", "career counseling",
                "career counselor", "career advisor", "career development",
                "career planning", "career guidance", "professional development",
                "student success">>
         [] p = "Experiential Learning" ->
              <<"experiential learning", "internship", "co-op", "cooperative education",
                "work-integrated learning", "practicum", "field experience",
                "experiential education", "internships">>]

DefaultSeniorityKeywords ==
    [l \in {"senior", "mid", "junior"} |->
       CASE l = "senior" ->
              <<"director", "senior director", "associate director", "executive director",
                "head", "chief", "vice president", "vp", "dean", "assistant dean", "lead">>
         [] l = "mid" ->
              <<"manager", "coordinator", "specialist", "advisor", "counselor",
                "associate", "assistant director", "program manager">>
         [] l = "junior" ->
              <<"assistant", "intern", "fellow", "associate", "coordinator">>]

get_default_keywords ==
    [persona |-> DefaultPersonaKeywords, seniority |-> DefaultSeniorityKeywords]

IsEmployerKw(kw) ==
    Contains("employer", kw) \/ Contains("corporate", kw)
      \/ Contains("industry", kw) \/ Contains("partnerships", kw)
IsCareerKw(kw) ==
    Contains("career", kw) \/ Contains("professional", kw)
      \/ Contains("student success", kw)
IsExperientialKw(kw) ==
    Contains("experiential", kw) \/ Contains("internship", kw) \/ Contains("co-op", kw)
IsSeniorKw(kw) ==
    Contains("director", kw) \/ Contains("head", kw) \/ Contains("lead", kw)
IsMidKw(kw) == Contains("manager", kw)

\* scoring.py 26-31: title keywords routed to personas by substring tags
MapPersonaKeywords(title_keywords) ==
    [p \in Personas |->
       CASE p = "Employer Relations" -> SelectSeq(title_keywords, IsEmployerKw)
         [] p = "Career Services" -> SelectSeq(title_keywords, IsCareerKw)
         [] p = "Experiential Learning" -> SelectSeq(title_keywords, IsExperientialKw)]

\* scoring.py 37-48: seniority keywords, with per-tier defaults
MapSeniorityKeywords(role_seniority_keywords) ==
    LET senior == SelectSeq(role_seniority_keywords, IsSeniorKw)
        mid == SelectSeq(role_seniority_keywords, IsMidKw)
    IN [l \in {"senior", "mid", "junior"} |->
          CASE l = "senior" ->
                 IF senior = <<>>
                 THEN <<"director", "head", "lead", "chief", "vp", "vice president">>
                 ELSE senior
            [] l = "mid" ->
                 IF mid = <<>>
                 THEN <<"manager", "coordinator", "specialist", "advisor", "counselor">>
                 ELSE mid
            [] l = "junior" -> <<"assistant", "intern", "fellow", "coordinator">>]

\* The loader with no handler for a missing file
load_config_keywords_MissingRaises(config_path) ==
    IF files[config_path] \in {FileNotFound, Malformed} THEN Raised
    ELSE IF \A p \in Personas :
              MapPersonaKeywords(files[config_path].title_keywords)[p] = <<>>
    THEN get_default_keywords
    ELSE [persona |-> MapPersonaKeywords(files[config_path].title_keywords),
          seniority |-> MapSeniorityKeywords(files[config_path].role_seniority_keywords)]

\* load_config_keywords(config_path): the pair of tables, or Raised
load_config_keywords(config_path) ==
    LET config == files[config_path]
    IN IF config = FileNotFound THEN get_default_keywords
       ELSE IF config = Malformed THEN Raised
       ELSE LET persona_keywords == MapPersonaKeywords(config.title_keywords)
            IN IF \A p \in Personas : persona_keywords[p] = <<>>
               THEN get_default_keywords
               ELSE [persona |-> persona_keywords,
                     seniority |-> MapSeniorityKeywords(config.role_seniority_keywords)]

\* The persona table of what load_config_keywords returned
PersonaTable(loaded) == IF loaded = Raised THEN Raised ELSE loaded.persona

\* The seniority table of what load_config_keywords returned
SeniorityTable(loaded) == IF loaded = Raised THEN Raised ELSE loaded.seniority

\* get_persona_keywords: the table the call returns (and leaves in the cache)
get_persona_keywords(config_path) ==
    IF PERSONA_KEYWORDS = None
    THEN PersonaTable(load_config_keywords(config_path))
    ELSE PERSONA_KEYWORDS

\* get_seniority_keywords: the table the call returns (and leaves in the cache)
get_seniority_keywords(config_path) ==
    IF SENIORITY_KEYWORDS = None
    THEN SeniorityTable(load_config_keywords(config_path))
    ELSE SENIORITY_KEYWORDS

\* The calls of load_config_keywords a get_*_keywords call makes: one when
\* its cache is not loaded, none otherwise
LoadsBy(cache) == IF cache = None THEN 1 ELSE 0

(***************************************************************************)
(* scoring.py: classification and scoring                                  *)
(***************************************************************************)
\* The test without pd.isna: a missing title goes on to title.lower()
NoTitle_NotTitleOnly(title) == title = ""

\* pd.isna(title) or not title
NoTitle(title) == title = NaN \/ title = ""

\* scoring.py 118-123: {persona: score} for the personas with score > 0
PersonaScores(title_lower, persona_keywords) ==
    [p \in {q \in Personas : CountMatches(persona_keywords[q], title_lower) > 0} |->
       CountMatches(persona_keywords[p], title_lower)]

\* The last maximal item instead of the first
MaxPersona_LastMax(persona_scores) ==
    LET at == CHOOSE i \in DOMAIN PersonaOrder :
                /\ PersonaOrder[i] \in DOMAIN persona_scores
                /\ \A j \in DOMAIN PersonaOrder :
                      PersonaOrder[j] \in DOMAIN persona_scores =>
                        /\ persona_scores[PersonaOrder[j]] <= persona_scores[PersonaOrder[i]]
                        /\ (j > i => persona_scores[PersonaOrder[j]]
                                       < persona_scores[PersonaOrder[i]])
    IN PersonaOrder[at]

\* max(persona_scores.items(), key=lambda x: x[1])[0]: the first maximal
\* item in the dict's order
MaxPersona(persona_scores) ==
    LET at == CHOOSE i \in DOMAIN PersonaOrder :
                /\ PersonaOrder[i] \in DOMAIN persona_scores
                /\ \A j \in DOMAIN PersonaOrder :
                      PersonaOrder[j] \in DOMAIN persona_scores =>
                        /\ persona_scores[PersonaOrder[j]] <= persona_scores[PersonaOrder[i]]
                        /\ (j < i => persona_scores[PersonaOrder[j]]
                                       < persona_scores[PersonaOrder[i]])
    IN PersonaOrder[at]

\* scoring.py 125-129: Unknown without a match, else the best persona
BestPersona(persona_scores) ==
    IF DOMAIN persona_scores = {} THEN Return("Unknown")
    ELSE Return(MaxPersona(persona_scores))

\* scoring.py 115-129: the persona of a lower-cased title under the tables
\* get_persona_keywords returned
PersonaOfTitle(title_lower, persona_keywords) ==
    IF persona_keywords = Raised THEN Raised
    ELSE BestPersona(PersonaScores(title_lower, persona_keywords))

\* The keywords matched against the title as given, not lower-cased
classify_persona_NoLower(title, config_path) ==
    IF NoTitle(title) THEN Return("Unknown")
    ELSE PersonaOfTitle(title, get_persona_keywords(config_path))

classify_persona(title, config_path) ==
    IF NoTitle(title) THEN Return("Unknown")
    ELSE PersonaOfTitle(Lower(title), get_persona_keywords(config_path))

\* The tiers tested in the order junior, mid, senior
FirstLevel_JuniorFirst(i, title_lower, seniority_keywords) ==
    IF AnyMatch(seniority_keywords["junior"], title_lower) THEN 4
    ELSE IF AnyMatch(seniority_keywords["mid"], title_lower) THEN 8
    ELSE IF AnyMatch(seniority_keywords["senior"], title_lower) THEN 12
    ELSE 2

\* A title matching no tier scored as junior
FirstLevel_NoMatchJunior(i, title_lower, seniority_keywords) ==
    IF AnyMatch(seniority_keywords["senior"], title_lower) THEN 12
    ELSE IF AnyMatch(seniority_keywords["mid"], title_lower) THEN 8
    ELSE 4

RECURSIVE FirstLevel(_, _, _)
\* scoring.py 145-152: the weight of the first tier, in the dict's order,
\* with a keyword in the title; 0.5 when there is none
FirstLevel(i, title_lower, seniority_keywords) ==
    IF i > Len(SeniorityOrder) THEN 2
    ELSE IF AnyMatch(seniority_keywords[SeniorityOrder[i]], title_lower)
    THEN (IF SeniorityOrder[i] = "senior" THEN 12
          ELSE IF SeniorityOrder[i] = "mid" THEN 8
          ELSE 4)
    ELSE FirstLevel(i + 1, title_lower, seniority_keywords)

\* scoring.py 142-154: the seniority of a lower-cased title under the tables
\* get_seniority_keywords returned
SeniorityOfTitle(title_lower, seniority_keywords) ==
    IF seniority_keywords = Raised THEN Raised
    ELSE Return(FirstLevel(1, title_lower, seniority_keywords))

score_seniority(title, config_path) ==
    IF NoTitle(title) THEN Return(2)
    ELSE SeniorityOfTitle(Lower(title), get_seniority_keywords(config_path))

GenericTerms == <<"career", "employer", "learning">>

\* One matching keyword scored as a partial match
RelevanceTier_OneIsPartial(keywords, matches, title_lower) ==
    IF keywords = <<>> THEN Return(2)
    ELSE IF matches >= 2 THEN Return(8)
    ELSE IF matches = 1 THEN Return(4)
    ELSE IF AnyMatch(GenericTerms, title_lower) THEN Return(4)
    ELSE Return(2)

\* scoring.py 171-184: the tier of a title with  matches  of the persona's
\* keywords in it
RelevanceTier(keywords, matches, title_lower) ==
    IF keywords = <<>> THEN Return(2)
    ELSE IF matches >= 2 THEN Return(8)
    ELSE IF matches = 1 THEN Return(6)
    ELSE IF AnyMatch(GenericTerms, title_lower) THEN Return(4)
    ELSE Return(2)

\* persona_keywords.get(persona, [])
KeywordsOf(persona_keywords, persona) ==
    IF persona \in DOMAIN persona_keywords THEN persona_keywords[persona] ELSE <<>>

\* scoring.py 167-184: the relevance of a lower-cased title to a persona
\* under the tables get_persona_keywords returned
RelevanceOfTitle(title_lower, persona, persona_keywords) ==
    IF persona_keywords = Raised THEN Raised
    ELSE RelevanceTier(KeywordsOf(persona_keywords, persona),
                       CountMatches(KeywordsOf(persona_keywords, persona), title_lower),
                       title_lower)

\* Without the test for the Unknown persona
score_title_relevance_NoUnknownTest(title, persona, config_path) ==
    IF NoTitle(title) THEN Return(2)
    ELSE RelevanceOfTitle(Lower(title), persona, get_persona_keywords(config_path))

score_title_relevance(title, persona, config_path) ==
    IF NoTitle(title) \/ persona = "Unknown" THEN Return(2)
    ELSE RelevanceOfTitle(Lower(title), persona, get_persona_keywords(config_path))

\* The sum of the two scores, not halved
HalfSum_NotHalved(seniority, relevance) ==
    IF seniority = Raised \/ relevance = Raised THEN Raised
    ELSE Return(seniority.value + relevance.value)

\* (seniority + relevance) / 2 of two scores, Raised if either call raised
HalfSum(seniority, relevance) ==
    IF seniority = Raised \/ relevance = Raised THEN Raised
    ELSE Return((seniority.value + relevance.value) \div 2)

\* calculate_contact_score(row): (seniority + relevance) / 2
calculate_contact_score(row, config_path) ==
    HalfSum(score_seniority(row.title, config_path),
            score_title_relevance(row.title, row.persona, config_path))

\* The cache after a call that reaches get_persona_keywords(config_path)
PersonaCacheAfter(config_path) ==
    IF get_persona_keywords(config_path) = Raised THEN PERSONA_KEYWORDS
    ELSE get_persona_keywords(config_path)

\* The cache after a call that reaches get_seniority_keywords(config_path)
SeniorityCacheAfter(config_path) ==
    IF get_seniority_keywords(config_path) = Raised THEN SENIORITY_KEYWORDS
    ELSE get_seniority_keywords(config_path)

\* The title column rewritten lower-cased along with the new columns
WithColumns_LowerTitle(row, persona, seniority, relevance, total) ==
    IF persona = Raised \/ seniority = Raised \/ relevance = Raised \/ total = Raised
    THEN Raised
    ELSE Return([persona |-> persona.value,
                 seniority_score |-> seniority.value,
                 relevance_score |-> relevance.value,
                 total_score |-> total.value,
                 title |-> IF NoTitle(row.title) THEN row.title ELSE Lower(row.title)]
                  @@ row)

\* scoring.py 210-215: the row with its four new columns, or Raised if a
\* call on the row raised
WithColumns(row, persona, seniority, relevance, total) ==
    IF persona = Raised \/ seniority = Raised \/ relevance = Raised \/ total = Raised
    THEN Raised
    ELSE Return([persona |-> persona.value,
                 seniority_score |-> seniority.value,
                 relevance_score |-> relevance.value,
                 total_score |-> total.value] @@ row)

\* The row as the lambdas of lines 212-215 see it, the persona column set
WithPersona(row, persona) ==
    IF persona = Raised THEN row ELSE [persona |-> persona.value] @@ row

\* One row of classify_and_score_contacts, its persona already classified
ScoredWith(row, with_persona, persona, config_path) ==
    WithColumns(row, persona,
                score_seniority(row.title, config_path),
                IF persona = Raised THEN Raised
                ELSE score_title_relevance(row.title, persona.value, config_path),
                IF persona = Raised THEN Raised
                ELSE calculate_contact_score(with_persona, config_path))

\* One row of classify_and_score_contacts
ScoredRow(row, config_path) ==
    ScoredWith(row,
               WithPersona(row, classify_persona(row.title, config_path)),
               classify_persona(row.title, config_path),
               config_path)

\* The values of a table of Return(row)
ValuesOf(scored) == [i \in DOMAIN scored |-> scored[i].value]

\* The table of scored rows, or Raised if scoring some row raised
TableOf(scored) ==
    IF \E i \in DOMAIN scored : scored[i] = Raised THEN Raised
    ELSE Return(ValuesOf(scored))

\* classify_and_score_contacts(df, config_path): the table with the columns
\* persona, seniority_score, relevance_score, total_score added, or Raised
classify_and_score_contacts(rows, config_path) ==
    TableOf([i \in DOMAIN rows |-> ScoredRow(rows[i], config_path)])

\* The calls of load_config_keywords classify_and_score_contacts makes: none
\* if no row has a title; else one for the persona column if that cache is
\* not loaded, and, unless that one raised, one for the seniority column if
\* that cache is not loaded (the later columns find the caches loaded)
LoadsOfScoring(rows, config_path) ==
    IF \A i \in DOMAIN rows : NoTitle(rows[i].title) THEN 0
    ELSE LoadsBy(PERSONA_KEYWORDS)
           + (IF get_persona_keywords(config_path) = Raised THEN 0
              ELSE LoadsBy(SENIORITY_KEYWORDS))

\* scoring.py 208: df = df.copy(); the columns are set on the copy, so the
\* table the caller passed is, after the call, the table it passed
InputAfterScoring(rows, config_path) == rows

\* Some row has a title, so that scoring it reads the keyword tables
ReadsKeywords(rows) == \E i \in DOMAIN rows : ~NoTitle(rows[i].title)

(***************************************************************************)
(* dedupe.py                                                               *)
(* A table is a sequence of rows (records); row i carries index label i    *)
(* (a RangeIndex, as read_csv and reset_index give), counted from 1.       *)
(***************************************************************************)
\* str(x) of a cell: astype(str) and the f-string both print NaN as 'nan'
AsStr(x) == IF x = NaN THEN "nan" ELSE x

RECURSIVE RowsAt(_, _, _)
\* The rows of a table at the positions in keep, from position i on, in order
RowsAt(rows, keep, i) ==
    IF i > Len(rows) THEN <<>>
    ELSE (IF i \in keep THEN <<rows[i]>> ELSE <<>>) \o RowsAt(rows, keep, i + 1)

\* The normalisation without lower(): the key is case-sensitive
NormalizedUrl_NoLower(row) == Strip(AsStr(row.linkedin_url))

\* df['linkedin_url'].astype(str).str.lower().str.strip()
NormalizedUrl(row) == Strip(Lower(AsStr(row.linkedin_url)))

\* drop_duplicates(subset=[...normalized], keep='first'), reset_index
dedupe_by_linkedin_url(rows) ==
    IF rows = <<>> THEN rows
    ELSE RowsAt(rows,
                {i \in DOMAIN rows :
                   \A j \in 1..(i - 1) : NormalizedUrl(rows[j]) # NormalizedUrl(rows[i])},
                1)

Max(a, b) == IF a >= b THEN a ELSE b

RECURSIVE LcsRow(_, _, _, _)
\* One row of the longest-common-subsequence table: prev is the row of the
\* prefix before character ch, cur the cells 0..Len(cur)-1 of the new row.
LcsRow(prev, ch, b, cur) ==
    LET j == Len(cur)
    IN IF j > Len(b) THEN cur
       ELSE LcsRow(prev, ch, b,
                   Append(cur, IF SubSeq(b, j, j) = ch THEN prev[j] + 1
                               ELSE Max(prev[j + 1], cur[j])))

RECURSIVE LcsRows(_, _, _, _)
LcsRows(a, b, i, prev) ==
    IF i > Len(a) THEN prev
    ELSE LcsRows(a, b, i + 1, LcsRow(prev, SubSeq(a, i, i), b, <<0>>))

RECURSIVE CommonPrefixLen(_, _, _)
\* The number of leading characters a and b share, beyond the first n
CommonPrefixLen(a, b, n) ==
    IF n < Len(a) /\ n < Len(b) /\ SubSeq(a, n + 1, n + 1) = SubSeq(b, n + 1, n + 1)
    THEN CommonPrefixLen(a, b, n + 1) ELSE n

RECURSIVE CommonSuffixLen(_, _, _)
\* The number of trailing characters a and b share, beyond the last n
CommonSuffixLen(a, b, n) ==
    IF n < Len(a) /\ n < Len(b)
         /\ SubSeq(a, Len(a) - n, Len(a) - n) = SubSeq(b, Len(b) - n, Len(b) - n)
    THEN CommonSuffixLen(a, b, n + 1) ELSE n

\* Length of a longest common subsequence of two strs: the shared prefix
\* and suffix (rapidfuzz strips the common affix first), and the table's
\* last cell for what lies between
LcsLen(a, b) ==
    LET pre == CommonPrefixLen(a, b, 0)
        a1 == SubSeq(a, pre + 1, Len(a))
        b1 == SubSeq(b, pre + 1, Len(b))
        suf == CommonSuffixLen(a1, b1, 0)
        a2 == SubSeq(a1, 1, Len(a1) - suf)
        b2 == SubSeq(b1, 1, Len(b1) - suf)
    IN pre + suf + LcsRows(a2, b2, 1, [j \in 1..(Len(b2) + 1) |-> 0])[Len(b2) + 1]

\* The similarity taken over twice the shorter length, not over both lengths
RatioAtLeast_ShorterLength(a, b, threshold) ==
    IF Len(a) + Len(b) = 0 THEN 100 >= threshold
    ELSE 200 * LcsLen(a, b) >= threshold * 2 * (IF Len(a) < Len(b) THEN Len(a) ELSE Len(b))

\* rapidfuzz fuzz.ratio(a, b) >= threshold, where
\* ratio = 100 * (1 - (Len(a) + Len(b) - 2 * LCS) / (Len(a) + Len(b)))
\* and two empty strs have ratio 100
RatioAtLeast(a, b, threshold) ==
    IF Len(a) + Len(b) = 0 THEN 100 >= threshold
    ELSE 200 * LcsLen(a, b) >= threshold * (Len(a) + Len(b))

\* f"{contact.get('school', '')} {contact.get('name', '')}".strip()
CompositeKey(contact) ==
    Strip(AsStr(IF "school" \in DOMAIN contact THEN contact.school ELSE "")
            \o " "
            \o AsStr(IF "name" \in DOMAIN contact THEN contact.name ELSE ""))

fuzzy_match_contacts(contact1, contact2, threshold) ==
    LET key1 == CompositeKey(contact1)
        key2 == CompositeKey(contact2)
    IN IF key1 = "" \/ key2 = "" THEN FALSE
       ELSE RatioAtLeast(Lower(key1), Lower(key2), threshold)

\* 'total_score' in df.columns
HasTotalScore(rows) == rows # <<>> /\ "total_score" \in DOMAIN rows[1]

IsPermutation(order, n) ==
    /\ DOMAIN order = 1..n
    /\ \A i \in 1..n : \E p \in 1..n : order[p] = i

\* df.sort_values('total_score', ascending=False): the orders the sort may
\* leave the rows in, order[p] being the label of the row at position p.
\* The default kind is quicksort, which is not stable: rows of equal score
\* come out in any order. Without the column the table is not sorted.
SortOrders(rows) ==
    IF HasTotalScore(rows)
    THEN {order \in [1..Len(rows) -> 1..Len(rows)] :
            /\ IsPermutation(order, Len(rows))
            /\ \A p \in 1..(Len(rows) - 1) :
                  rows[order[p]].total_score >= rows[order[p + 1]].total_score}
    ELSE {[p \in 1..Len(rows) |-> p]}

RECURSIVE ScanPairs(_, _, _, _, _)
\* dedupe.py 80-94: the positions marked by the nested loops, from (i, j) on
ScanPairs(sorted, threshold, i, j, indices_to_drop) ==
    IF i > Len(sorted) THEN indices_to_drop
    ELSE IF i \in indices_to_drop \/ j > Len(sorted)
         THEN ScanPairs(sorted, threshold, i + 1, i + 2, indices_to_drop)
    ELSE IF j \in indices_to_drop
         THEN ScanPairs(sorted, threshold, i, j + 1, indices_to_drop)
    ELSE ScanPairs(sorted, threshold, i, j + 1,
                   IF fuzzy_match_contacts(sorted[i], sorted[j], threshold)
                   THEN indices_to_drop \cup {j} ELSE indices_to_drop)

\* df[~df.index.isin(indices_to_drop)]: the rows whose *label* is not among
\* the marked *positions*, in the sorted order
KeptPositions(order, indices_to_drop) ==
    {p \in DOMAIN order : order[p] \notin indices_to_drop}

\* dedupe_fuzzy_match(df, threshold), the sort having left the rows in order
dedupe_fuzzy_match(rows, threshold, order) ==
    IF rows = <<>> THEN rows
    ELSE LET sorted == [p \in DOMAIN order |-> rows[order[p]]]
             indices_to_drop == ScanPairs(sorted, threshold, 1, 2, {})
         IN RowsAt(sorted, KeptPositions(order, indices_to_drop), 1)

\* dedupe.py 16-19, 65-68: an empty table is returned as it is, any other is
\* copied before the helper columns are set and rows dropped, so the table
\* the caller passed is, after the call, the table it passed
InputAfterDedupe(rows) == rows

\* df_deduped.index before reset_index: the labels of the rows
\* dedupe_fuzzy_match keeps, in the sorted order
KeptLabels(rows, threshold, order) ==
    IF rows = <<>> THEN <<>>
    ELSE RowsAt(order,
                KeptPositions(order,
                              ScanPairs([p \in DOMAIN order |-> rows[order[p]]],
                                        threshold, 1, 2, {})),
                1)

\* The count taken after Stage 1: the removals of Stage 2 only
dedupe_contacts_Stage2Count(rows, fuzzy_threshold, order) ==
    <<dedupe_fuzzy_match(dedupe_by_linkedin_url(rows), fuzzy_threshold, order),
      Len(dedupe_by_linkedin_url(rows))
        - Len(dedupe_fuzzy_match(dedupe_by_linkedin_url(rows), fuzzy_threshold, order))>>

\* dedupe_contacts(df, fuzzy_threshold): (deduplicated table, removed count)
dedupe_contacts(rows, fuzzy_threshold, order) ==
    LET original_count == Len(rows)
        stage1 == dedupe_by_linkedin_url(rows)
        stage2 == dedupe_fuzzy_match(stage1, fuzzy_threshold, order)
    IN <<stage2, original_count - Len(stage2)>>

(***************************************************************************)
(* Calls of the scoring functions, one at a time, on a file system with    *)
(* one config file.                                                        *)
(***************************************************************************)
MaxKeywords == 2
MaxLoads == 2

RECURSIVE SeqsUpTo(_, _)
\* The sequences over S of length at most n
SeqsUpTo(S, n) ==
    IF n = 0 THEN {<<>>}
    ELSE LET shorter == SeqsUpTo(S, n - 1)
         IN shorter \cup {Append(q, x) : q \in shorter, x \in S}

TitleKeywordPool == {"employer", "career", "internship"}
RoleKeywordLists == {<<>>, <<"lead", "manager">>}

\* What a config file can hold: nothing (no such file), text that is not
\* JSON, or a document with the two keyword lists.
Contents ==
    {FileNotFound, Malformed}
      \cup [title_keywords : SeqsUpTo(TitleKeywordPool, MaxKeywords),
            role_seniority_keywords : RoleKeywordLists]

Titles ==
    {NaN, "",
     "Director of Employer Relations",
     "Employer Partnerships Manager",
     "Career Counselor",
     "Career Services Internship Coordinator",
     "Internships and Co-op Lead",
     "Employer and Internship Relations",
     "Student Ambassador",
     "Lifelong Learning Fellow"}

PersonaTags == Personas \cup {"Unknown"}

NoCall == [op |-> "none"]

InitScoring ==
    /\ files \in [{"schools.json"} -> Contents]
    /\ PERSONA_KEYWORDS = None
    /\ SENIORITY_KEYWORDS = None
    /\ ret = NoCall
    /\ df = <<>>
    /\ pc = "calls"
    /\ runs = 0
    /\ loads = 0

CallClassifyPersona ==
    \E title \in Titles, config_path \in DOMAIN files :
        LET n == IF NoTitle(title) THEN 0 ELSE LoadsBy(PERSONA_KEYWORDS)
        IN /\ loads + n <= MaxLoads
           /\ ret' = [op |-> "classify_persona", title |-> title, persona |-> "",
                      config_path |-> config_path,
                      out |-> classify_persona(title, config_path)]
           /\ PERSONA_KEYWORDS' = IF NoTitle(title) THEN PERSONA_KEYWORDS
                                  ELSE PersonaCacheAfter(config_path)
           /\ loads' = loads + n
           /\ UNCHANGED <<files, SENIORITY_KEYWORDS, df, pc, runs>>

CallScoreSeniority ==
    \E title \in Titles, config_path \in DOMAIN files :
        LET n == IF NoTitle(title) THEN 0 ELSE LoadsBy(SENIORITY_KEYWORDS)
        IN /\ loads + n <= MaxLoads
           /\ ret' = [op |-> "score_seniority", title |-> title, persona |-> "",
                      config_path |-> config_path,
                      out |-> score_seniority(title, config_path)]
           /\ SENIORITY_KEYWORDS' = IF NoTitle(title) THEN SENIORITY_KEYWORDS
                                    ELSE SeniorityCacheAfter(config_path)
           /\ loads' = loads + n
           /\ UNCHANGED <<files, PERSONA_KEYWORDS, df, pc, runs>>

CallScoreTitleRelevance ==
    \E title \in Titles, persona \in PersonaTags, config_path \in DOMAIN files :
        LET n == IF NoTitle(title) \/ persona = "Unknown" THEN 0
                 ELSE LoadsBy(PERSONA_KEYWORDS)
        IN /\ loads + n <= MaxLoads
           /\ ret' = [op |-> "score_title_relevance", title |-> title,
                      persona |-> persona, config_path |-> config_path,
                      out |-> score_title_relevance(title, persona, config_path)]
           /\ PERSONA_KEYWORDS' = IF NoTitle(title) \/ persona = "Unknown"
                                  THEN PERSONA_KEYWORDS
                                  ELSE PersonaCacheAfter(config_path)
           /\ loads' = loads + n
           /\ UNCHANGED <<files, SENIORITY_KEYWORDS, df, pc, runs>>

\* A call of load_config_keywords itself: it reads the file and returns the
\* pair of tables, leaving the caches alone
CallLoadConfigKeywords ==
    \E config_path \in DOMAIN files :
        /\ loads < MaxLoads
        /\ ret' = [op |-> "load_config_keywords", config_path |-> config_path,
                   out |-> IF load_config_keywords(config_path) = Raised THEN Raised
                           ELSE Return(load_config_keywords(config_path))]
        /\ loads' = loads + 1
        /\ UNCHANGED <<files, PERSONA_KEYWORDS, SENIORITY_KEYWORDS, df, pc, runs>>

NextScoring ==
    \/ CallClassifyPersona
    \/ CallScoreSeniority
    \/ CallScoreTitleRelevance
    \/ CallLoadConfigKeywords

SpecScoring == InitScoring /\ [][NextScoring]_vars

(***************************************************************************)
(* The same calls in a process that has two config files to name, as a     *)
(* test suite or a second run in the same process does.                    *)
(***************************************************************************)
ConfigPaths == {"schools.json", "other.json"}

CacheContents ==
    {FileNotFound, Malformed,
     [title_keywords |-> <<"career">>, role_seniority_keywords |-> <<"lead", "manager">>]}

InitCache ==
    /\ files \in [ConfigPaths -> CacheContents]
    /\ PERSONA_KEYWORDS = None
    /\ SENIORITY_KEYWORDS = None
    /\ ret = NoCall
    /\ df = <<>>
    /\ pc = "calls"
    /\ runs = 0
    /\ loads = 0

SpecCache == InitCache /\ [][NextScoring]_vars

(***************************************************************************)
(* Calls of the dedupe functions on a table a caller holds: each of the    *)
(* three functions on a fresh table, and dedupe_contacts again on its own  *)
(* output.                                                                 *)
(***************************************************************************)
MaxRows == 3
MaxRuns == 2

DefaultThreshold == 92
Thresholds == {85, DefaultThreshold}

Schools == {"SU"}
Names == {"Joan", "joann", "joanne"}
Urls == {NaN, " ", "li/a", "LI/A "}
TotalScores == {4, 8}

PlainRows == [school : Schools, name : Names, linkedin_url : Urls]
ScoredRows ==
    [school : Schools, name : Names, linkedin_url : Urls, total_score : TotalScores]

\* The tables of at most n rows: every row with the total_score column, or none
Tables(n) == SeqsUpTo(PlainRows, n) \cup SeqsUpTo(ScoredRows, n)

InitDedupe ==
    /\ files = [f \in {"schools.json"} |-> FileNotFound]
    /\ PERSONA_KEYWORDS = None
    /\ SENIORITY_KEYWORDS = None
    /\ ret = NoCall
    /\ df \in Tables(MaxRows)
    /\ pc = "fresh"
    /\ runs = 0
    /\ loads = 0

CallDedupeByLinkedinUrl ==
    /\ pc = "fresh"
    /\ ret' = [op |-> "dedupe_by_linkedin_url", arg |-> df]
    /\ df' = dedupe_by_linkedin_url(df)
    /\ pc' = "called"
    /\ UNCHANGED <<files, PERSONA_KEYWORDS, SENIORITY_KEYWORDS, runs, loads>>

CallDedupeFuzzyMatch ==
    /\ pc = "fresh"
    /\ \E threshold \in Thresholds, order \in SortOrders(df) :
          /\ ret' = [op |-> "dedupe_fuzzy_match", arg |-> df,
                     threshold |-> threshold, order |-> order,
                     kept |-> KeptLabels(df, threshold, order)]
          /\ df' = dedupe_fuzzy_match(df, threshold, order)
    /\ pc' = "called"
    /\ UNCHANGED <<files, PERSONA_KEYWORDS, SENIORITY_KEYWORDS, runs, loads>>

\* df, removed = dedupe_contacts(df, threshold), on a fresh table or on the
\* table an earlier dedupe_contacts returned
CallDedupeContacts ==
    /\ pc = "fresh" \/ (pc = "called" /\ ret.op = "dedupe_contacts")
    /\ runs < MaxRuns
    /\ \E threshold \in Thresholds,
          order \in SortOrders(dedupe_by_linkedin_url(df)) :
          LET result == dedupe_contacts(df, threshold, order)
          IN /\ ret' = [op |-> "dedupe_contacts", arg |-> df,
                        threshold |-> threshold, order |-> order,
                        stage1 |-> dedupe_by_linkedin_url(df),
                        removed |-> result[2],
                        previous |-> ret]
             /\ df' = result[1]
    /\ pc' = "called"
    /\ runs' = runs + 1
    /\ UNCHANGED <<files, PERSONA_KEYWORDS, SENIORITY_KEYWORDS, loads>>

NextDedupe ==
    \/ CallDedupeByLinkedinUrl
    \/ CallDedupeFuzzyMatch
    \/ CallDedupeContacts

SpecDedupe == InitDedupe /\ [][NextDedupe]_vars

(***************************************************************************)
(* agent.py run_main_command: the table read from the input CSV is scored  *)
(* and then deduplicated at the threshold 92.0, in a fresh process.        *)
(***************************************************************************)
InputRows ==
    {[school |-> "School A", name |-> "Jon Lee",
      title |-> "Director of Employer Relations", linkedin_url |-> "li.com/a"],
     [school |-> "School A", name |-> "Jonathan Lee",
      title |-> "Director, Employer Relations", linkedin_url |-> "li.com/a2"],
     [school |-> "School B", name |-> "Amy Chen",
      title |-> "Career Counselor", linkedin_url |-> "li.com/b"],
     [school |-> "School A", name |-> "John Lee",
      title |-> NaN, linkedin_url |-> "LI.com/B "]}

\* The row in a CSV that also has the optional email and phone columns
WithContact(row) ==
    row @@ [email |-> IF row.name = "Jon Lee" THEN "jon.lee@a.edu" ELSE NaN,
            phone |-> IF row.name = "Amy Chen" THEN "555-0100" ELSE NaN]

\* The input tables of at most n rows: the four required columns, alone or
\* with the email and phone columns
InputTables(n) ==
    SeqsUpTo(InputRows, n) \cup SeqsUpTo({WithContact(row) : row \in InputRows}, n)

Init ==
    /\ files \in [{"schools.json"} -> Contents]
    /\ PERSONA_KEYWORDS = None
    /\ SENIORITY_KEYWORDS = None
    /\ ret = NoCall
    /\ df \in InputTables(MaxRows)
    /\ pc = "loaded"
    /\ runs = 0
    /\ loads = 0

\* agent.py 79-82: df = classify_and_score_contacts(df, config_path)
ClassifyAndScore ==
    /\ pc = "loaded"
    /\ \E config_path \in DOMAIN files :
          LET out == classify_and_score_contacts(df, config_path)
          IN /\ ret' = [op |-> "classify_and_score_contacts", arg |-> df,
                        arg_after |-> InputAfterScoring(df, config_path),
                        config_path |-> config_path, out |-> out]
             /\ df' = IF out = Raised THEN df ELSE out.value
             /\ pc' = IF out = Raised THEN "failed" ELSE "scored"
             /\ PERSONA_KEYWORDS' =
                   IF ReadsKeywords(df) THEN PersonaCacheAfter(config_path)
                   ELSE PERSONA_KEYWORDS
             /\ SENIORITY_KEYWORDS' =
                   IF ReadsKeywords(df) /\ out # Raised
                   THEN SeniorityCacheAfter(config_path)
                   ELSE SENIORITY_KEYWORDS
             /\ loads' = loads + LoadsOfScoring(df, config_path)
    /\ UNCHANGED <<files, runs>>

\* agent.py 84-88: df, duplicates_removed = dedupe_contacts(df, 92.0)
Deduplicate ==
    /\ pc = "scored"
    /\ \E order \in SortOrders(dedupe_by_linkedin_url(df)) :
          LET result == dedupe_contacts(df, DefaultThreshold, order)
          IN /\ ret' = [op |-> "dedupe_contacts", arg |-> df,
                        arg_after |-> InputAfterDedupe(df),
                        threshold |-> DefaultThreshold, order |-> order,
                        stage1 |-> dedupe_by_linkedin_url(df),
                        removed |-> result[2],
                        previous |-> ret]
             /\ df' = result[1]
    /\ pc' = "deduped"
    /\ runs' = runs + 1
    /\ UNCHANGED <<files, PERSONA_KEYWORDS, SENIORITY_KEYWORDS, loads>>

Next ==
    \/ ClassifyAndScore
    \/ Deduplicate

Spec == Init /\ [][Next]_vars

(***************************************************************************)
(* Properties of the scoring functions (SpecScoring)                       *)
(***************************************************************************)
\* The last call was one of the three functions that take a title.
ScoringCall ==
    ret.op \in {"classify_persona", "score_seniority", "score_title_relevance"}

\* The last call returned (no exception escaped it).
Returned == ret.op # "none" /\ ret.out # Raised

\* How many of persona p's keyword phrases occur in the lower-cased title of
\* the last call, by the keyword table the call used (none occurs in a
\* missing or empty title).
PhraseCount(p) ==
    IF NoTitle(ret.title) THEN 0
    ELSE Cardinality({i \in DOMAIN PERSONA_KEYWORDS[p] :
                        Contains(PERSONA_KEYWORDS[p][i], Lower(ret.title))})

\* The distinct keyword phrases of persona p that occur in that title.
PhrasesIn(p) ==
    IF NoTitle(ret.title) THEN {}
    ELSE {PERSONA_KEYWORDS[p][i] : i \in
            {j \in DOMAIN PERSONA_KEYWORDS[p] :
               Contains(PERSONA_KEYWORDS[p][j], Lower(ret.title))}}

Before(p, q) ==
    \E i, j \in DOMAIN PersonaOrder :
        i < j /\ PersonaOrder[i] = p /\ PersonaOrder[j] = q

\* C6: classify_persona returns Unknown exactly when no persona has a
\* keyword phrase occurring in the lower-cased title; otherwise it returns a
\* persona with the maximal match count, and of several such the first in
\* the order Employer Relations, Career Services, Experiential Learning.
C6_ClassifyMaxFirst ==
    (ret.op = "classify_persona" /\ Returned) =>
        LET got == ret.out.value
        IN /\ (got = "Unknown") <=> (\A p \in Personas : PhraseCount(p) = 0)
           /\ got # "Unknown" =>
                 /\ got \in Personas
                 /\ \A q \in Personas : PhraseCount(q) <= PhraseCount(got)
                 /\ \A q \in Personas :
                       Before(q, got) => PhraseCount(q) < PhraseCount(got)

\* C6 witness: a call that returned Career Services for a title in which
\* Career Services and Experiential Learning tie for the highest count.
C6_Witness ==
    /\ ret.op = "classify_persona" /\ Returned
    /\ ret.out.value = "Career Services"
    /\ PhraseCount("Career Services") = PhraseCount("Experiential Learning")
    /\ PhraseCount("Employer Relations") < PhraseCount("Career Services")

\* C7: for a title that contains at least two keyword phrases of persona P
\* and no keyword phrase of any other persona, classify_persona returns P.
C7_TwoPhrasesOnePersona ==
    (ret.op = "classify_persona" /\ Returned) =>
        \A P \in Personas :
            ( /\ Cardinality(PhrasesIn(P)) >= 2
              /\ \A q \in Personas \ {P} : PhrasesIn(q) = {} )
            => ret.out.value = P

\* C7 witness: a call on a mixed-case title with two or more Employer
\* Relations phrases and no phrase of another persona.
C7_Witness ==
    /\ ret.op = "classify_persona" /\ Returned
    /\ ret.title # Lower(ret.title)
    /\ Cardinality(PhrasesIn("Employer Relations")) >= 2
    /\ PhrasesIn("Career Services") = {}
    /\ PhrasesIn("Experiential Learning") = {}
    /\ ret.out.value = "Employer Relations"

\* C8: a null or empty title is never an error: classify_persona returns
\* Unknown, score_seniority 0.5 and score_title_relevance 0.5 for it, under
\* every content of the config file.
C8_NoTitleNoError ==
    (ScoringCall /\ (ret.title = NaN \/ ret.title = "")) =>
        /\ ret.out # Raised
        /\ ret.op = "classify_persona" => ret.out = Return("Unknown")
        /\ ret.op = "score_seniority" => ret.out = Return(2)
        /\ ret.op = "score_title_relevance" => ret.out = Return(2)

\* C8 witness: score_seniority of a missing title while the config file is
\* not valid JSON.
C8_Witness ==
    /\ ret.op = "score_seniority"
    /\ ret.title = NaN
    /\ files[ret.config_path] = Malformed
    /\ ret.out = Return(2)

\* The value C9 states for the last call of score_title_relevance.
StatedRelevance ==
    LET n == PhraseCount(ret.persona)
    IN IF n >= 2 THEN 8
       ELSE IF n = 1 THEN 6
       ELSE IF \E g \in {"career", "employer", "learning"} :
                 Contains(g, Lower(ret.title)) THEN 4
       ELSE 2

\* C9: for a non-empty title and a persona other than Unknown,
\* score_title_relevance returns 2.0 for two or more keyword matches, 1.5
\* for one, 1.0 for none but a generic term, 0.5 otherwise, under every
\* keyword configuration the loader can produce.
C9_RelevanceTiers ==
    ( /\ ret.op = "score_title_relevance" /\ Returned
      /\ ~NoTitle(ret.title) /\ ret.persona \in Personas )
    => ret.out = Return(StatedRelevance)

\* C10: score_title_relevance(title, 'Unknown') returns 0.5 for every
\* title, also one with persona keywords or generic terms in it.
C10_UnknownRelevance ==
    (ret.op = "score_title_relevance" /\ ret.persona = "Unknown")
    => ret.out = Return(2)

\* C10 witness: the call for the Unknown persona on a title that contains
\* the generic term 'career' and a default Career Services phrase.
C10_Witness ==
    /\ ret.op = "score_title_relevance" /\ ret.persona = "Unknown"
    /\ ~NoTitle(ret.title)
    /\ Contains("career", Lower(ret.title))
    /\ AnyMatch(DefaultPersonaKeywords["Career Services"], Lower(ret.title))
    /\ ret.out = Return(2)

\* Some keyword of the tier, in the seniority table the last call used,
\* occurs in the lower-cased title of the last call.
TierMatches(level) ==
    /\ ~NoTitle(ret.title)
    /\ \E i \in DOMAIN SENIORITY_KEYWORDS[level] :
          Contains(SENIORITY_KEYWORDS[level][i], Lower(ret.title))

\* The last call was score_seniority on a title, and it returned.
ScoredSeniority ==
    /\ ret.op = "score_seniority"
    /\ Returned
    /\ ~NoTitle(ret.title)

\* C11: score_seniority returns 3.0 whenever a senior keyword occurs in the
\* lower-cased title (also when mid or junior keywords occur), 2.0 when no
\* senior but a mid keyword occurs, 1.0 when only junior keywords occur,
\* under the default and every config-derived keyword table.
C11_SeniorityTierOrder ==
    ScoredSeniority =>
        /\ TierMatches("senior") => ret.out = Return(12)
        /\ (~TierMatches("senior") /\ TierMatches("mid")) => ret.out = Return(8)
        /\ (~TierMatches("senior") /\ ~TierMatches("mid") /\ TierMatches("junior"))
             => ret.out = Return(4)

\* C11 witness: a call under a config-derived table on a title with a
\* senior and a junior keyword in it, which returned 3.0.
C11_Witness ==
    /\ ScoredSeniority
    /\ files[ret.config_path] \notin {FileNotFound, Malformed}
    /\ SENIORITY_KEYWORDS # DefaultSeniorityKeywords
    /\ TierMatches("senior") /\ TierMatches("junior")
    /\ ret.out = Return(12)

\* C12: score_seniority returns one of 3.0, 2.0, 1.0, 0.5 for every title
\* (a missing or empty one too), and 0.5 for every title in which no keyword
\* of any tier occurs.
C12_SeniorityRange ==
    (ret.op = "score_seniority" /\ Returned) =>
        /\ ret.out \in {Return(12), Return(8), Return(4), Return(2)}
        /\ (\A level \in {"senior", "mid", "junior"} : ~TierMatches(level))
             => ret.out = Return(2)

\* C12 witness: 'Student Ambassador' under the default keywords returned 0.5.
C12_Witness ==
    /\ ScoredSeniority
    /\ ret.title = "Student Ambassador"
    /\ SENIORITY_KEYWORDS = DefaultSeniorityKeywords
    /\ ret.out = Return(2)

\* The last call was load_config_keywords.
Loaded == ret.op = "load_config_keywords"

\* The file the last call was given holds a document from which every
\* persona gets a keyword.
CustomForAll ==
    /\ files[ret.config_path] \notin {FileNotFound, Malformed}
    /\ \A p \in Personas :
          MapPersonaKeywords(files[ret.config_path].title_keywords)[p] # <<>>

\* C14: the table load_config_keywords returns has a keyword for each of
\* the three personas; when the config yields none for some persona, the
\* call returns the default persona and seniority tables together.
C14_NoEmptyPersonaList ==
    (Loaded /\ Returned) =>
        /\ \A p \in Personas : ret.out.value.persona[p] # <<>>
        /\ ~CustomForAll => ret.out.value = get_default_keywords

\* C15: on a config file that is not valid JSON, load_config_keywords
\* returns the default tables, and classify_persona, score_seniority and
\* score_title_relevance return without raising.
C15_MalformedIsSoft ==
    (ret.op # "none" /\ files[ret.config_path] = Malformed) =>
        /\ Returned
        /\ Loaded => ret.out = Return(get_default_keywords)

\* C16: when the config file does not exist, load_config_keywords raises
\* nothing and returns the default persona and seniority tables of
\* get_default_keywords.
C16_MissingFileDefaults ==
    (Loaded /\ files[ret.config_path] = FileNotFound) =>
        /\ ret.out = Return(get_default_keywords)
        /\ ret.out.value.persona = DefaultPersonaKeywords
        /\ ret.out.value.seniority = DefaultSeniorityKeywords

\* C16 witness: load_config_keywords was called on a path with no file and
\* returned tables with a keyword list for every persona and tier.
C16_Witness ==
    /\ Loaded
    /\ files[ret.config_path] = FileNotFound
    /\ Returned
    /\ \A p \in Personas : ret.out.value.persona[p] # <<>>
    /\ \A l \in {"senior", "mid", "junior"} : ret.out.value.seniority[l] # <<>>

\* What the last call returns when it works from the tables derived from
\* the config path it was given.
OutcomeFromOwnConfig ==
    IF ret.op = "classify_persona"
    THEN (IF NoTitle(ret.title) THEN Return("Unknown")
          ELSE PersonaOfTitle(Lower(ret.title),
                              PersonaTable(load_config_keywords(ret.config_path))))
    ELSE IF ret.op = "score_seniority"
    THEN (IF NoTitle(ret.title) THEN Return(2)
          ELSE SeniorityOfTitle(Lower(ret.title),
                                SeniorityTable(load_config_keywords(ret.config_path))))
    ELSE (IF NoTitle(ret.title) \/ ret.persona = "Unknown" THEN Return(2)
          ELSE RelevanceOfTitle(Lower(ret.title), ret.persona,
                                PersonaTable(load_config_keywords(ret.config_path))))

\* C17 (SpecCache): a call of classify_persona, score_seniority or
\* score_title_relevance given a config path works from the keyword tables
\* derived from that path, whatever path earlier calls in the process used.
C17_NoCacheLeak ==
    (ScoringCall /\ load_config_keywords(ret.config_path) # Raised)
    => ret.out = OutcomeFromOwnConfig

\* Both caches hold the tables load_config_keywords derives from the file
\* at the path.
CachesFrom(config_path) ==
    /\ load_config_keywords(config_path) # Raised
    /\ PERSONA_KEYWORDS = load_config_keywords(config_path).persona
    /\ SENIORITY_KEYWORDS = load_config_keywords(config_path).seniority

\* C23 (SpecCache): when both caches are loaded, the cached persona table
\* and the cached seniority table are those of one config: never a persona
\* table from one config with a seniority table from another.
C23_CachesFromOneConfig ==
    (PERSONA_KEYWORDS # None /\ SENIORITY_KEYWORDS # None) =>
        \E config_path \in DOMAIN files : CachesFrom(config_path)

(***************************************************************************)
(* Properties of the dedupe functions (SpecDedupe)                         *)
(***************************************************************************)
Range(seq) == {seq[i] : i \in DOMAIN seq}

RECURSIVE IsSubsequence(_, _)
\* a is b with some rows left out, the others in their order
IsSubsequence(a, b) ==
    IF a = <<>> THEN TRUE
    ELSE IF b = <<>> THEN FALSE
    ELSE IF Head(a) = Head(b) THEN IsSubsequence(Tail(a), Tail(b))
    ELSE IsSubsequence(a, Tail(b))

\* Stage 1 ran in the last call: on its own, or as step 1 of dedupe_contacts
Stage1Ran == ret.op \in {"dedupe_by_linkedin_url", "dedupe_contacts"}
Stage1In == ret.arg
Stage1Out == IF ret.op = "dedupe_contacts" THEN ret.stage1 ELSE df

\* A row whose linkedin_url is missing or blank
BlankUrl(row) == row.linkedin_url = NaN \/ Strip(row.linkedin_url) = ""

\* The case-folded, trimmed linkedin_url of a row (a missing one is its own)
UrlKey(row) ==
    IF row.linkedin_url = NaN THEN NaN ELSE Strip(Lower(row.linkedin_url))

\* The last call was dedupe_fuzzy_match on a table with total_score
Stage2Scored == ret.op = "dedupe_fuzzy_match" /\ HasTotalScore(ret.arg)

\* Rows p and q of the table given to Stage 2 match each other and no
\* third row matches either of them
IsolatedPair(p, q) ==
    /\ p # q
    /\ fuzzy_match_contacts(ret.arg[p], ret.arg[q], ret.threshold)
    /\ \A r \in DOMAIN ret.arg \ {p, q} :
          /\ ~fuzzy_match_contacts(ret.arg[p], ret.arg[r], ret.threshold)
          /\ ~fuzzy_match_contacts(ret.arg[q], ret.arg[r], ret.threshold)

\* C1: in Stage 2 with total_score present, of two matching contacts with
\* different scores the higher-scored one is kept and the other removed,
\* whatever their order in the input table.
C1_HigherScoreKept ==
    Stage2Scored =>
        \A p, q \in DOMAIN ret.arg :
            (IsolatedPair(p, q) /\ ret.arg[p].total_score > ret.arg[q].total_score)
            => (ret.arg[p] \in Range(df) /\ ret.arg[q] \notin Range(df))

\* C2: every record whose linkedin_url is blank or missing survives Stage 1.
C2_BlankUrlsSurvive ==
    Stage1Ran =>
        Cardinality({i \in DOMAIN Stage1Out : BlankUrl(Stage1Out[i])})
          = Cardinality({i \in DOMAIN Stage1In : BlankUrl(Stage1In[i])})

\* The sort kept rows of equal total_score in their prior order (what a
\* stable sort does).
KeptTies(rows, order) ==
    \A p, q \in DOMAIN order :
        (p < q /\ rows[order[p]].total_score = rows[order[q]].total_score)
        => order[p] < order[q]

\* The last call ran dedupe_contacts on the output of a run of
\* dedupe_contacts with the same threshold.
RanAgain ==
    /\ ret.op = "dedupe_contacts"
    /\ ret.previous.op = "dedupe_contacts"
    /\ ret.previous.threshold = ret.threshold

\* C3: dedupe_contacts run on its own output with the same threshold
\* returns that table unchanged (same contacts, same order) and a removed
\* count of 0. Stated for the runs most favourable to it: those in which
\* the sort of both calls keeps rows of equal score in their prior order.
C3_DedupeIdempotent ==
    ( /\ RanAgain
      /\ HasTotalScore(ret.arg)
      /\ KeptTies(ret.previous.stage1, ret.previous.order)
      /\ KeptTies(ret.stage1, ret.order) )
    => (df = ret.arg /\ ret.removed = 0)

\* C4: Stage 1 keeps, of the records sharing a non-empty case-folded and
\* trimmed linkedin_url, exactly the first in input order; no two output
\* records share a normalized URL; survivors keep their input order.
C4_FirstOfEachUrl ==
    Stage1Ran =>
        /\ \A i, j \in DOMAIN Stage1Out :
              i < j => UrlKey(Stage1Out[i]) # UrlKey(Stage1Out[j])
        /\ IsSubsequence(Stage1Out, Stage1In)
        /\ RowsAt(Stage1Out, {i \in DOMAIN Stage1Out : ~BlankUrl(Stage1Out[i])}, 1)
             = RowsAt(Stage1In,
                      {i \in DOMAIN Stage1In :
                         /\ ~BlankUrl(Stage1In[i])
                         /\ \A j \in 1..(i - 1) :
                               UrlKey(Stage1In[j]) # UrlKey(Stage1In[i])},
                      1)

\* C4 witness: Stage 1 ran on a table where a later record's URL differs
\* from an earlier one's only in case and surrounding blanks, and removed
\* the later one while a record between them stayed in place.
C4_Witness ==
    /\ ret.op = "dedupe_by_linkedin_url"
    /\ Len(ret.arg) = 3 /\ Len(df) = 2
    /\ ~BlankUrl(ret.arg[1])
    /\ ret.arg[1].linkedin_url # ret.arg[3].linkedin_url
    /\ UrlKey(ret.arg[1]) = UrlKey(ret.arg[3])
    /\ df = <<ret.arg[1], ret.arg[2]>>

\* C19: the count dedupe_contacts returns is the number of input contacts
\* minus the number of output contacts, the removals of both stages
\* together, and 0 for the empty input.
C19_RemovedCount ==
    ret.op = "dedupe_contacts" =>
        /\ ret.removed = Len(ret.arg) - Len(df)
        /\ ret.removed = (Len(ret.arg) - Len(ret.stage1)) + (Len(ret.stage1) - Len(df))
        /\ ret.arg = <<>> => ret.removed = 0

\* C19 witness: a call in which each stage removed a contact.
C19_Witness ==
    /\ ret.op = "dedupe_contacts"
    /\ Len(ret.arg) = 3 /\ Len(ret.stage1) = 2 /\ Len(df) = 1
    /\ ret.removed = 2

\* The position in the sorted order of the row with the label.
PositionOf(label) == CHOOSE p \in DOMAIN ret.order : ret.order[p] = label

\* C20: every contact Stage 2 removes matches, at the threshold, a contact
\* that comes before it in the sorted order and is kept in the output.
\* Stated for the sorts that keep rows of equal total_score in their prior
\* order, so that it does not rest on the order of ties.
C20_RemovedHasKeptMatch ==
    ( /\ ret.op = "dedupe_fuzzy_match"
      /\ HasTotalScore(ret.arg) => KeptTies(ret.arg, ret.order) )
    => \A removed \in DOMAIN ret.arg \ Range(ret.kept) :
           \E kept \in Range(ret.kept) :
               /\ PositionOf(kept) < PositionOf(removed)
               /\ fuzzy_match_contacts(ret.arg[kept], ret.arg[removed], ret.threshold)

\* The last call was Stage 2 on a table with the total_score column.
Stage2OnScores == ret.op = "dedupe_fuzzy_match" /\ HasTotalScore(ret.arg)

C22_NoMatchLeft ==
    ( /\ ret.op = "dedupe_fuzzy_match"
      /\ HasTotalScore(ret.arg) => KeptTies(ret.arg, ret.order) )
    => \A i, j \in DOMAIN df :
           i < j => ~fuzzy_match_contacts(df[i], df[j], ret.threshold)

(***************************************************************************)
(* Properties of the run from input table to deduplicated table (Spec)     *)
(***************************************************************************)
EndToEndRows ==
    <<[school |-> "School A", name |-> "Jon Lee",
       title |-> "Director of Employer Relations", linkedin_url |-> "li.com/a"],
      [school |-> "School A", name |-> "Jonathan Lee",
       title |-> "Director, Employer Relations", linkedin_url |-> "li.com/a2"],
      [school |-> "School B", name |-> "Amy Chen",
       title |-> "Career Counselor", linkedin_url |-> "li.com/b"]>>

\* The run scored the three rows under the default keywords and then
\* deduplicated them at the threshold 92.0
EndToEndRan ==
    /\ pc = "deduped"
    /\ ret.threshold = DefaultThreshold
    /\ ret.previous.op = "classify_and_score_contacts"
    /\ ret.previous.arg = EndToEndRows
    /\ PERSONA_KEYWORDS = DefaultPersonaKeywords
    /\ SENIORITY_KEYWORDS = DefaultSeniorityKeywords

PersonasOf(rows) == [i \in DOMAIN rows |-> rows[i].persona]

\* C5 as stated: the three rows yield 2 output rows, the two Lee rows merged
\* into the first, with personas Employer Relations and Career Services.
C5_Stated ==
    EndToEndRan =>
      /\ Len(df) = 2
      /\ PersonasOf(df) = <<"Employer Relations", "Career Services">>

\* C5: end-to-end with default keywords and threshold 92.0 the three rows
\* yield 3 output rows and a removed count of 0: the composite keys of the
\* two Lee rows are less than 92 similar and do not merge. Both Lee rows are
\* Employer Relations and come before the Career Services row of Amy Chen.
C5_EndToEnd ==
    EndToEndRan =>
      /\ Len(df) = 3
      /\ ret.removed = 0
      /\ PersonasOf(df) = <<"Employer Relations", "Employer Relations", "Career Services">>
      /\ {df[1].name, df[2].name} = {"Jon Lee", "Jonathan Lee"}
      /\ df[3].name = "Amy Chen"

C5_Witness ==
    /\ EndToEndRan
    /\ Len(ret.arg) = 3
    /\ ~fuzzy_match_contacts(EndToEndRows[1], EndToEndRows[2], DefaultThreshold)

\* The table the run holds has the score columns: it came out of
\* classify_and_score_contacts, or out of dedupe_contacts after it.
ScoredTable == pc \in {"scored", "deduped"}

\* C13: every row produced by classify_and_score_contacts, and every row
\* that survives dedupe_contacts afterwards, has
\* total_score = (seniority_score + relevance_score) / 2.
C13_TotalIsHalfSum ==
    ScoredTable =>
        \A i \in DOMAIN df :
            2 * df[i].total_score = df[i].seniority_score + df[i].relevance_score

\* C13 witness: a deduplicated table, a row removed from it, whose first
\* row has a seniority score other than its relevance score.
C13_Witness ==
    /\ pc = "deduped"
    /\ ret.removed > 0
    /\ df # <<>>
    /\ df[1].seniority_score # df[1].relevance_score
    /\ df[1].total_score > 2

\* C18: within one run the config file is loaded exactly once, on the first
\* call that needs keywords: load_config_keywords has been invoked once when
\* a keyword table is in use, and never more than once.
C18_LoadedOnce ==
    /\ loads <= 1
    /\ (PERSONA_KEYWORDS # None \/ SENIORITY_KEYWORDS # None) => loads = 1

\* C24: in every row classify_and_score_contacts produces, persona is
\* Unknown exactly when relevance_score is 0.5, every other persona has
\* relevance_score 1.5 or 2.0, and relevance_score is never 1.0.
C24_RelevanceFollowsPersona ==
    ScoredTable =>
        \A i \in DOMAIN df :
            /\ (df[i].persona = "Unknown") <=> (df[i].relevance_score = 2)
            /\ df[i].persona # "Unknown" => df[i].relevance_score \in {6, 8}
            /\ df[i].relevance_score # 4

\* C24 witness: a scored table with a row of a known persona and a row
\* whose title has the generic term 'career' in it and whose persona is
\* Unknown, its relevance_score 0.5.
C24_Witness ==
    /\ pc = "scored"
    /\ \E i \in DOMAIN df : df[i].persona # "Unknown" /\ df[i].relevance_score = 6
    /\ \E i \in DOMAIN df :
          /\ ~NoTitle(df[i].title)
          /\ Contains("career", Lower(df[i].title))
          /\ df[i].persona = "Unknown"
          /\ df[i].relevance_score = 2

\* The columns a contact arrives with.
ContactColumns == {"school", "name", "title", "linkedin_url", "email", "phone"}

\* The four columns classify_and_score_contacts adds.
DerivedColumns == {"persona", "seniority_score", "relevance_score", "total_score"}

\* The contact of a row: its values in the columns it arrived with.
ContactOf(row) == [c \in ContactColumns \cap DOMAIN row |-> row[c]]

\* How many rows of the table hold the contact.
TimesIn(rows, contact) ==
    Cardinality({i \in DOMAIN rows : ContactOf(rows[i]) = contact})

\* C25: classify_and_score_contacts and dedupe_contacts only add the derived
\* columns or remove whole contacts: every output contact is an input
\* contact with school, name, title, linkedin_url, email and phone
\* unchanged, no contact is in the output more often than in the input, and
\* the table the caller passed is left as it was.
C25_OnlyAddsOrRemoves ==
    ret.op \in {"classify_and_score_contacts", "dedupe_contacts"} =>
        /\ \A i \in DOMAIN df :
              /\ TimesIn(ret.arg, ContactOf(df[i])) >= 1
              /\ TimesIn(df, ContactOf(df[i])) <= TimesIn(ret.arg, ContactOf(df[i]))
        /\ ret.arg_after = ret.arg
        /\ (ret.op = "classify_and_score_contacts" /\ ret.out # Raised) =>
              /\ Len(df) = Len(ret.arg)
              /\ \A i \in DOMAIN df :
                    /\ ContactOf(df[i]) = ContactOf(ret.arg[i])
                    /\ DOMAIN df[i] = DOMAIN ret.arg[i] \cup DerivedColumns
        /\ ret.op = "dedupe_contacts" =>
              \A i \in DOMAIN df : DOMAIN df[i] = DOMAIN ret.arg[1]

\* C25 witness: a table with the email and phone columns was scored and
\* then deduplicated, a contact removed; the first output contact has an
\* email.
C25_Witness ==
    /\ pc = "deduped"
    /\ ret.removed > 0
    /\ df # <<>>
    /\ "email" \in DOMAIN df[1]
    /\ df[1].email # NaN
    /\ ret.previous.out # Raised
    /\ ret.previous.arg_after = ret.previous.arg

(***************************************************************************)
(* outreach.py: the LinkedIn connection note                               *)
(***************************************************************************)
\* str.rfind(ch): the 0-based index of the last ch in s, -1 when there is none
RFind(s, ch) ==
    LET at == {i \in 1..Len(s) : SubSeq(s, i, i) = ch}
    IN IF at = {} THEN -1 ELSE (CHOOSE i \in at : \A j \in at : j <= i) - 1

\* outreach.py 83-84: cut at the last space when it lies beyond 80% of
\* max_length
CutAtSpace(truncated, last_space, max_length) ==
    IF 10 * last_space > 8 * max_length
    THEN SubSeq(truncated, 1, last_space)
    ELSE truncated

\* outreach.py 87: the ellipsis is appended to whatever was cut
WithEllipsis(truncated, note) ==
    IF truncated # note THEN truncated \o "..." ELSE truncated

\* outreach.py 73-87, for max_length >= 0
truncate_linkedin_note(note, max_length) ==
    IF Len(note) <= max_length
    THEN note
    ELSE WithEllipsis(CutAtSpace(SubSeq(note, 1, max_length),
                                 RFind(SubSeq(note, 1, max_length), " "),
                                 max_length),
                      note)

(***************************************************************************)
(* Specification of the note: calls of truncate_linkedin_note              *)
(***************************************************************************)
MaxNoteLen == 7

RECURSIVE StrsOfLen(_)
\* The strs of n characters over a letter and the space
StrsOfLen(n) ==
    IF n = 0 THEN {""}
    ELSE {s \o c : s \in StrsOfLen(n - 1), c \in {"a", " "}}

Notes == UNION {StrsOfLen(n) : n \in 0..MaxNoteLen}

InitOutreach ==
    /\ files = [path \in {} |-> FileNotFound]
    /\ PERSONA_KEYWORDS = None
    /\ SENIORITY_KEYWORDS = None
    /\ ret = NoCall
    /\ df = <<>>
    /\ pc = "outreach"
    /\ runs = 0
    /\ loads = 0

CallTruncateLinkedinNote ==
    \E note \in Notes, max_length \in 0..MaxNoteLen :
        /\ ret' = [op |-> "truncate_linkedin_note", note |-> note,
                   max_length |-> max_length,
                   out |-> truncate_linkedin_note(note, max_length)]
        /\ UNCHANGED <<files, PERSONA_KEYWORDS, SENIORITY_KEYWORDS, df, pc,
                       runs, loads>>

NextOutreach == CallTruncateLinkedinNote

SpecOutreach == InitOutreach /\ [][NextOutreach]_vars

\* C26: truncate_linkedin_note(note, max_length) returns at most max_length
\* characters for every note, and returns a note of at most max_length
\* characters unchanged.
C26_NoteFits ==
    ret.op = "truncate_linkedin_note" =>
        /\ Len(ret.out) <= ret.max_length
        /\ Len(ret.note) <= ret.max_length => ret.out = ret.note

(***************************************************************************)
(* enrich.py: email and phone from the staff pages of a contact's school   *)
(***************************************************************************)
\* None where a str is expected: a cell set by df['email'] = None, or the
\* half of a page lookup that found nothing
NoValue == "<None>"

\* pd.notna(x)
NotNa(x) == x \notin {NaN, NoValue}

\* enrich.py 186-189: the email and phone columns, None where the table
\* has none
WithContactColumns(row) ==
    row @@ [email |-> NoValue, phone |-> NoValue]

RECURSIVE TryUrls(_, _, _, _, _)
\* enrich.py 220-237: the loop over the school's URLs for one contact.
\* pages[url] is what find_contact_info_on_page(url, name) returns; fetched
\* lists each URL fetched with the contact's cells at the time of the fetch.
TryUrls(urls, pages, email, phone, fetched) ==
    IF urls = <<>>
    THEN [email |-> email, phone |-> phone, fetched |-> fetched]
    ELSE LET found == pages[Head(urls)]
             log == Append(fetched, [url |-> Head(urls), email |-> email,
                                     phone |-> phone, found |-> found])
             email2 == IF found.email # NoValue THEN found.email ELSE email
             phone2 == IF found.phone # NoValue THEN found.phone ELSE phone
         IN IF found.email # NoValue /\ found.phone # NoValue
            THEN [email |-> email2, phone |-> phone2, fetched |-> log]
            ELSE TryUrls(Tail(urls), pages, email2, phone2, log)

\* enrich.py 206-217: the URLs tried for a row: none when the school has no
\* entry or an empty one, none when the row came with both values
UrlsFor(row, staff_pages) ==
    IF row.school \notin DOMAIN staff_pages THEN <<>>
    ELSE IF NotNa(row.email) /\ NotNa(row.phone) THEN <<>>
    ELSE staff_pages[row.school]

\* enrich.py 212-237: one contact, the row as it came and the pages fetched
EnrichedRow(row, staff_pages, pages) ==
    TryUrls(UrlsFor(row, staff_pages), pages, row.email, row.phone, <<>>)

\* enrich.py 170-239: the table returned and, for each row, the fetches made
enrich_contacts_from_staff_pages(rows, content, pages) ==
    LET table == [i \in DOMAIN rows |-> WithContactColumns(rows[i])]
    IN IF content \in {FileNotFound, Malformed}
       THEN [out |-> table, fetched |-> [i \in DOMAIN rows |-> <<>>]]
       ELSE [out |-> [i \in DOMAIN rows |->
                        [email |-> EnrichedRow(table[i], content, pages).email,
                         phone |-> EnrichedRow(table[i], content, pages).phone]
                          @@ table[i]],
             fetched |-> [i \in DOMAIN rows |->
                            EnrichedRow(table[i], content, pages).fetched]]

(***************************************************************************)
(* Specification of the enrichment: one call on a table of one school      *)
(***************************************************************************)
MaxContacts == 2

StaffUrls == <<"su.edu/staff", "su.edu/team", "su.edu/people">>

\* What a page can give for the contact: an email or None, a phone or None
PageResults ==
    [email : {NoValue, "lee@su.edu", "jlee@su.edu"}, phone : {NoValue, "555-0100"}]

\* staff_pages.json: missing, not JSON, or school -> list of URLs
StaffPagesContents ==
    {FileNotFound, Malformed, [school \in {"Other"} |-> StaffUrls]}
      \cup {[school \in {"SU"} |-> SubSeq(StaffUrls, 1, n)] : n \in 0..Len(StaffUrls)}

EnrichRows ==
    {[school |-> "SU", name |-> "Jon Lee"]}
      \cup [school : {"SU"}, name : {"Jon Lee"},
            email : {NaN, "lee@a.edu"}, phone : {NaN, "555-0199"}]

\* A table's rows have the same columns
EnrichTables ==
    {t \in SeqsUpTo(EnrichRows, MaxContacts) :
        \A i, j \in DOMAIN t : DOMAIN t[i] = DOMAIN t[j]}

InitEnrich ==
    /\ files \in [{"staff_pages.json"} -> StaffPagesContents]
    /\ PERSONA_KEYWORDS = None
    /\ SENIORITY_KEYWORDS = None
    /\ ret = NoCall
    /\ df \in EnrichTables
    /\ pc = "deduped"
    /\ runs = 0
    /\ loads = 0

\* agent.py 93: df = enrich_contacts_from_staff_pages(df, staff_pages_path)
CallEnrichContacts ==
    /\ pc = "deduped"
    /\ \E staff_pages_path \in DOMAIN files,
          pages \in [{StaffUrls[k] : k \in DOMAIN StaffUrls} -> PageResults] :
          /\ ret' = [op |-> "enrich_contacts_from_staff_pages", arg |-> df,
                     staff_pages_path |-> staff_pages_path, pages |-> pages,
                     fetched |-> enrich_contacts_from_staff_pages(
                                     df, files[staff_pages_path], pages).fetched]
          /\ df' = enrich_contacts_from_staff_pages(
                       df, files[staff_pages_path], pages).out
    /\ pc' = "enriched"
    /\ UNCHANGED <<files, PERSONA_KEYWORDS, SENIORITY_KEYWORDS, runs, loads>>

NextEnrich == CallEnrichContacts

SpecEnrich == InitEnrich /\ [][NextEnrich]_vars

\* C27: in enrich_contacts_from_staff_pages no URL is fetched for a contact
\* that has both an email and a phone: a contact with both on input is
\* skipped, the loop over the URLs stops once both are found, and a value
\* found on an earlier URL is not overwritten after the contact is complete.
C27_NoFetchOnceComplete ==
    ret.op = "enrich_contacts_from_staff_pages" =>
        \A i \in DOMAIN ret.fetched : \A k \in DOMAIN ret.fetched[i] :
            ~(NotNa(ret.fetched[i][k].email) /\ NotNa(ret.fetched[i][k].phone))

====
